---- MODULE Spec2Model ----
(***************************************************************************)
(* tma (src/src/main.rs): a tmux session is described by a configuration   *)
(* (a Session of Windows of Panes) and materialised by a sequence of tmux   *)
(* commands.  The model follows one process invocation (main): the inputs  *)
(* are the loaded Session, the --dry-run and --kill flags and the current  *)
(* working directory; every tmux command that is built is appended to      *)
(* cmds together with whether a process was really launched for it.        *)
(***************************************************************************)
EXTENDS Integers, Sequences, FiniteSets, TLC

VARIABLES
    session,   \* the loaded configuration (struct Session), never mutated
    dry_run,   \* Opts.dry_run
    kill,      \* Opts.kill
    cwd,       \* env::current_dir(): None when unavailable, else Some(path);
               \* the process never changes it, every call reads the same value
    pc,        \* position of the run in start/create/kill
    wi,        \* index of the window being created (0-based, as in the code)
    pi,        \* index of the pane being created (0-based, as in the code)
    cmds,      \* tmux commands built so far: [argv, launched]
    probe,     \* outcome of the has-session probe
    fail,      \* first launched command after the probe that failed
    exec,      \* outcome of cmd.exec() for attach
    result,    \* what start/kill returned
    race       \* concurrent invocations of start on one tmux server:
               \* [server: the server's session names, proc: one record per invocation]

vars == <<session, dry_run, kill, cwd, pc, wi, pi, cmds, probe, fail, exec, result, race>>
inputs == <<session, dry_run, kill, cwd>>

(***************************************************************************)
(* Bounds of the explored configurations.                                  *)
(***************************************************************************)
MaxWindows == 2
MaxPanes == 2
\* Invocations of start that run at the same time.
NumStarts == 2

(***************************************************************************)
(* Option of T: None is the empty sequence, Some(x) the one-element one.     *)
(***************************************************************************)
None == <<>>
Some(x) == <<x>>
unwrap_or(o, d) == IF o = None THEN d ELSE o[1]

(***************************************************************************)
(* Paths.  A path is its root flag and its components; a root override of  *)
(* the configuration is held in the same form (what Path::new makes of the *)
(* string).                                                                *)
(***************************************************************************)
Rel(c) == [abs |-> FALSE, comps |-> <<c>>]
Abs(c) == [abs |-> TRUE, comps |-> <<c>>]
RootDir == [abs |-> TRUE, comps |-> <<>>]

\* A plausible slip: an override is always appended, absolute or not.
push_append(p, r) == [abs |-> p.abs, comps |-> p.comps \o r.comps]

\* PathBuf::push: an absolute argument replaces the path, a relative one is joined.
push(p, r) == IF r.abs THEN r ELSE [abs |-> p.abs, comps |-> p.comps \o r.comps]

\* root.as_ref().map(|r| path.push(r))
push_opt(p, o) == IF o = None THEN p ELSE push(p, o[1])

RECURSIVE join(_)
join(cs) == IF cs = <<>> THEN ""
            ELSE IF Len(cs) = 1 THEN cs[1]
            ELSE cs[1] \o "/" \o join(Tail(cs))

\* PathBuf::to_str
to_str(p) == IF p.abs THEN "/" \o join(p.comps) ELSE join(p.comps)

(***************************************************************************)
(* Results of start and kill.                                              *)
(***************************************************************************)
Pending == [kind |-> "Pending", ctx |-> <<>>]
Ok == [kind |-> "Ok", ctx |-> <<>>]
Err(ctx) == [kind |-> "Err", ctx |-> ctx]
Panic(msg) == [kind |-> "Panic", ctx |-> <<msg>>]
Replaced == [kind |-> "Replaced", ctx |-> <<>>]

NoFail == [idx |-> 0, kind |-> "none"]

\* Exit of a launched child: exit status 0, exit status non-zero, or the
\* process could not be spawned (io::Error).
Outcomes == {"success", "status", "spawn"}

(***************************************************************************)
(* The configuration model (struct Session, Window, Pane).                 *)
(***************************************************************************)
Pane(root, command, split) == [root |-> root, command |-> command, split |-> split]
Window(name, root, pane) == [name |-> name, root |-> root, pane |-> pane]
Session(name, root, attach, window) ==
    [name |-> name, root |-> root, attach |-> attach, window |-> window]

\* self.window[i] and self.window[i].pane[j], with the code's 0-based indices
window_at(s, i) == s.window[i + 1]
pane_at(s, i, j) == s.window[i + 1].pane[j + 1]

\* Session::session_name: the configured name, else the base name of the
\* current directory; current_dir() may fail, file_name() of "/" is None
\* and the expect panics.
session_name(s, d) ==
    IF s.name # None THEN [kind |-> "Ok", val |-> s.name[1]]
    ELSE IF d = None THEN [kind |-> "Err", val |-> "Failed to get current directory"]
    ELSE IF d[1].comps = <<>>
         THEN [kind |-> "Panic", val |-> "Failed to get filename of current directory"]
    ELSE [kind |-> "Ok", val |-> d[1].comps[Len(d[1].comps)]]

(***************************************************************************)
(* Root resolution as create, Window::create and Pane::create compute it.  *)
(* d is the current directory (a path).                                    *)
(***************************************************************************)
session_root(s, d) == push_opt(d, s.root)

window_root(s, d, i) == push_opt(session_root(s, d), window_at(s, i).root)

\* A plausible slip: the first pane's own root is not cascaded.
first_pane_root_skip(s, d, i) == window_root(s, d, i)

\* self.pane.get(0).as_ref().map(|p| p.root.as_ref().map(|r| pane_root.push(r)))
first_pane_root(s, d, i) ==
    IF Len(window_at(s, i).pane) > 0
    THEN push_opt(window_root(s, d, i), pane_at(s, i, 0).root)
    ELSE window_root(s, d, i)

pane_root(s, d, i, j) == push_opt(window_root(s, d, i), pane_at(s, i, j).root)

(***************************************************************************)
(* Argument vectors handed to tmux().                                      *)
(***************************************************************************)
has_session_args(name) == <<"has-session", "-t", name>>

new_args(name, root) == <<"new", "-d", "-s", name, "-c", root>>

new_window_args(name, root) == <<"new-window", "-t", name, "-c", root>>

\* A plausible slip: the new name and the target are swapped.
rename_window_args_swapped(name, n) == <<"rename-window", "-t", n, name>>

rename_window_args(name, n) == <<"rename-window", "-t", name, n>>

\* format!("{}:{}", session_name, pane_index), then -h for split == "horizontal"
split_window_args(name, window_index, pane_index, root, split) ==
    <<"split-window", "-t", name \o ":" \o ToString(pane_index), "-c", root>>
        \o (IF split # None /\ split[1] = "horizontal" THEN <<"-h">> ELSE <<>>)

\* A plausible slip: the keys are sent without the newline that runs them.
send_keys_args_raw(c) == <<"send-keys", c>>

send_keys_args(c) == <<"send-keys", c \o "\n">>

select_pane_args(name) == <<"select-pane", "-t", name \o ":0.0">>

attach_args(name) == <<"attach", "-t", name>>

\* A plausible slip: the session is named by the directory, not by the configuration.
kill_args_cwd(s, d) ==
    <<"kill-session", "-t", session_name([s EXCEPT !.name = None], d).val>>

kill_args(s, d) == <<"kill-session", "-t", session_name(s, d).val>>

Cmd(argv, launched) == [argv |-> argv, launched |-> launched]

(***************************************************************************)
(* The explored inputs: three families of invocations.                     *)
(***************************************************************************)
SeqUpTo(S, n) == UNION {[1..k -> S] : k \in 0..n}

Bare == Pane(None, None, None)

\* One pane running ls, a second one running top in a horizontal split.
ScenarioWindows ==
    <<Window(None, None,
             <<Pane(None, Some("ls"), None), Pane(None, Some("top"), Some("horizontal"))>>)>>

\* A named window without panes, then a named window with one pane and a command.
TwoWindows ==
    <<Window(Some("edit"), None, <<>>),
      Window(Some("logs"), None, <<Pane(None, Some("top"), None)>>)>>

Dirs == {None, Some(RootDir), Some([abs |-> TRUE, comps |-> <<"r">>]),
         Some([abs |-> TRUE, comps |-> <<"home", "u", "proj">>])}

\* Flags and environment vary, over three fixed window lists.
EnvInputs ==
    {[session |-> Session(n, None, a, w), dry_run |-> dr, kill |-> k, cwd |-> d] :
        n \in {None, Some("work")}, a \in {None, Some(TRUE), Some(FALSE)},
        w \in {<<>>, ScenarioWindows, TwoWindows},
        dr \in BOOLEAN, k \in BOOLEAN, d \in Dirs}

\* Pane j (0-based) of a shaped window: commands alternate, and so do the splits.
ShapedPane(j) ==
    Pane(None, Some(IF j % 2 = 0 THEN "ls" ELSE "top"),
         Some(IF j % 2 = 1 THEN "horizontal" ELSE "vertical"))

ShapedWindows ==
    {Window(None, None, [k \in 1..n |-> Bare]) : n \in 0..MaxPanes}
        \cup {Window(Some("w"), None, [k \in 1..n |-> ShapedPane(k - 1)]) : n \in 0..MaxPanes}

\* The shape of the session varies: up to MaxWindows windows of up to MaxPanes panes.
ShapeInputs ==
    {[session |-> Session(None, None, None, w), dry_run |-> dr, kill |-> k,
      cwd |-> Some([abs |-> TRUE, comps |-> <<"home", "u", "proj">>])] :
        w \in SeqUpTo(ShapedWindows, MaxWindows) \ {<<>>}, dr \in BOOLEAN, k \in BOOLEAN}

Roots(rel, abs) == {None, Some(Rel(rel)), Some(Abs(abs))}
Splits == {None, Some("horizontal"), Some("vertical")}

\* The root overrides and the split vary: one window of two panes, or a bare
\* window followed by a window of two panes.
RootWindows ==
    {<<Window(None, wr, <<Pane(p0, None, None), Pane(p1, None, sp)>>)>> :
        wr \in Roots("b", "opt"), p0 \in Roots("p", "tmp"), p1 \in Roots("q", "var"),
        sp \in Splits}
    \cup
    {<<Window(None, None, <<>>), Window(None, wr, <<Pane(p0, None, None), Pane(p1, None, None)>>)>> :
        wr \in Roots("b", "opt"), p0 \in Roots("p", "tmp"), p1 \in Roots("q", "var")}

RootInputs ==
    {[session |-> Session(None, sr, Some(FALSE), w), dry_run |-> FALSE, kill |-> FALSE,
      cwd |-> Some([abs |-> TRUE, comps |-> <<"r">>])] :
        sr \in Roots("s", "srv"), w \in RootWindows}

Inputs == EnvInputs \cup ShapeInputs \cup RootInputs

Init ==
    /\ \E in \in Inputs :
        /\ session = in.session
        /\ dry_run = in.dry_run
        /\ kill = in.kill
        /\ cwd = in.cwd
    /\ pc = "main"
    /\ wi = 0
    /\ pi = 0
    /\ cmds = <<>>
    /\ probe = "none"
    /\ fail = NoFail
    /\ exec = "none"
    /\ result = Pending
    /\ race = [server |-> {}, proc |-> <<>>]

(***************************************************************************)
(* Control flow helpers.                                                   *)
(***************************************************************************)
At(p, i, j) == [pc |-> p, wi |-> i, pi |-> j, result |-> Pending]
Return(r) == [pc |-> "done", wi |-> wi, pi |-> pi, result |-> r]

Goto(pos) ==
    /\ pc' = pos.pc
    /\ wi' = pos.wi
    /\ pi' = pos.pi
    /\ result' = pos.result

\* A plausible slip: the loop stops one window short.
WindowLoop_short(i) ==
    IF i + 1 < Len(session.window) THEN At("window", i, 0) ELSE At("select", i, 0)

\* for (i, window) in self.window.iter().enumerate(), then select-pane
WindowLoop(i) ==
    IF i < Len(session.window) THEN At("window", i, 0) ELSE At("select", i, 0)

\* A plausible slip: select-pane follows the panes of each window.
PaneLoop_select(i, j) ==
    IF j < Len(window_at(session, i).pane) THEN At("pane", i, j) ELSE At("select", i, 0)

\* for (i, pane) in self.pane.iter().enumerate(), then the next window
PaneLoop(i, j) ==
    IF j < Len(window_at(session, i).pane) THEN At("pane", i, j) ELSE WindowLoop(i + 1)

\* A plausible slip: the process is launched in a dry run too.
Launches_always(dr) == TRUE

\* if !dry_run { cmd.output() / cmd.exec() }
Launches(dr) == ~dr

NoteFail(o) ==
    IF fail.idx = 0 /\ o # "success"
    THEN [idx |-> Len(cmds) + 1, kind |-> o]
    ELSE fail

\* A plausible variant: a step that cannot be launched tears the session down.
Run_rollback(argv, ctx, next) ==
    IF Launches(dry_run)
    THEN \E o \in Outcomes :
            /\ fail' = NoteFail(o)
            /\ cmds' = IF o = "spawn"
                       THEN cmds \o <<Cmd(argv, TRUE),
                                      Cmd(<<"kill-session", "-t", session_name(session, cwd).val>>, TRUE)>>
                       ELSE Append(cmds, Cmd(argv, TRUE))
            /\ Goto(IF o = "spawn" THEN Return(Err(ctx)) ELSE next)
    ELSE /\ cmds' = Append(cmds, Cmd(argv, FALSE))
         /\ fail' = fail
         /\ Goto(next)

\* let mut cmd = tmux(argv); if !dry_run { cmd.output().context(ctx)?; }
\* output() is an Err only when the process cannot be spawned; the exit
\* status is not looked at.
Run(argv, ctx, next) ==
    /\ cmds' = Append(cmds, Cmd(argv, Launches(dry_run)))
    /\ IF Launches(dry_run)
       THEN \E o \in Outcomes :
               /\ fail' = NoteFail(o)
               /\ Goto(IF o = "spawn" THEN Return(Err(ctx)) ELSE next)
       ELSE /\ fail' = fail
            /\ Goto(next)

\* The same inside option.as_ref().map(|x| -> Result<(), Error> { ... }):
\* the closure's Result is dropped with the Option that holds it.
RunDropped(argv, next) ==
    /\ cmds' = Append(cmds, Cmd(argv, Launches(dry_run)))
    /\ IF Launches(dry_run)
       THEN \E o \in Outcomes :
               /\ fail' = NoteFail(o)
               /\ Goto(next)
       ELSE /\ fail' = fail
            /\ Goto(next)

Skip(next) ==
    /\ Goto(next)
    /\ UNCHANGED <<cmds, fail>>

name == session_name(session, cwd).val

(***************************************************************************)
(* Session::start                                                          *)
(***************************************************************************)
\* A plausible slip: the window list is never checked.
is_empty_unchecked(s) == FALSE

\* self.window.is_empty()
is_empty(s) == s.window = <<>>

\* A plausible slip: the two Ok arms of the match are swapped.
AfterProbe_swapped(o) ==
    IF o = "status"
    THEN Return(Err(<<"Session already exists. Please explicitly set a unique name.">>))
    ELSE IF o = "success" THEN At("create", 0, 0)
    ELSE Return(Err(<<"Error executing tmux">>))

\* A plausible slip: a probe that cannot be launched counts as "no session".
AfterProbe_lenient(o) ==
    IF o = "success"
    THEN Return(Err(<<"Session already exists. Please explicitly set a unique name.">>))
    ELSE At("create", 0, 0)

\* match tmux(has-session).status(): Ok(s) if s.success(), Ok(_), Err(e)
AfterProbe(o) ==
    IF o = "success"
    THEN Return(Err(<<"Session already exists. Please explicitly set a unique name.">>))
    ELSE IF o = "status" THEN At("create", 0, 0)
    ELSE Return(Err(<<"Error executing tmux">>))

Start ==
    /\ pc = "main"
    /\ ~kill
    /\ LET n == session_name(session, cwd) IN
       IF is_empty(session)
       THEN /\ Goto(Return(Err(<<"Please configure at least one window.">>)))
            /\ UNCHANGED <<cmds, probe>>
       ELSE IF n.kind = "Err"
       THEN /\ Goto(Return(Err(<<n.val>>)))
            /\ UNCHANGED <<cmds, probe>>
       ELSE IF n.kind = "Panic"
       THEN /\ Goto(Return(Panic(n.val)))
            /\ UNCHANGED <<cmds, probe>>
       ELSE \E o \in Outcomes :
               /\ cmds' = Append(cmds, Cmd(has_session_args(n.val), TRUE))
               /\ probe' = o
               /\ Goto(AfterProbe(o))
    /\ UNCHANGED <<race, inputs, fail, exec>>

(***************************************************************************)
(* Session::create                                                         *)
(***************************************************************************)
CreateSession ==
    /\ pc = "create"
    /\ IF cwd = None
       THEN /\ Goto(Return(Err(<<"Failed to get current directory">>)))
            /\ UNCHANGED <<cmds, fail>>
       ELSE IF session.window = <<>>
       THEN /\ Goto(Return(Panic("index out of bounds")))
            /\ UNCHANGED <<cmds, fail>>
       ELSE Run(new_args(name, to_str(first_pane_root(session, cwd[1], 0))),
                <<"Error creating session">>, WindowLoop(0))
    /\ UNCHANGED <<race, inputs, probe, exec>>

SelectPane ==
    /\ pc = "select"
    /\ Run(select_pane_args(name), <<"Error selecting pane">>, At("attach", wi, pi))
    /\ UNCHANGED <<race, inputs, probe, exec>>

\* A plausible slip: an absent attach flag counts as false.
attach_enabled_off(s) == unwrap_or(s.attach, FALSE)

\* self.attach.unwrap_or(true)
attach_enabled(s) == unwrap_or(s.attach, TRUE)

\* cmd.exec() returns only when it failed, and its io::Error is dropped.
Attach ==
    /\ pc = "attach"
    /\ IF attach_enabled(session)
       THEN /\ cmds' = Append(cmds, Cmd(attach_args(name), Launches(dry_run)))
            /\ IF Launches(dry_run)
               THEN \E o \in {"success", "spawn"} :
                       /\ exec' = o
                       /\ Goto(Return(IF o = "success" THEN Replaced ELSE Ok))
               ELSE /\ exec' = exec
                    /\ Goto(Return(Ok))
       ELSE /\ Goto(Return(Ok))
            /\ UNCHANGED <<cmds, exec>>
    /\ UNCHANGED <<race, inputs, probe, fail>>

(***************************************************************************)
(* Window::create                                                          *)
(***************************************************************************)
WindowCreate ==
    /\ pc = "window"
    /\ IF wi # 0
       THEN Run(new_window_args(name, to_str(first_pane_root(session, cwd[1], wi))),
                <<"Error creating window", "Failed to create new window">>,
                At("rename", wi, 0))
       ELSE Skip(At("rename", wi, 0))
    /\ UNCHANGED <<race, inputs, probe, exec>>

WindowRename ==
    /\ pc = "rename"
    /\ IF window_at(session, wi).name # None
       THEN RunDropped(rename_window_args(name, window_at(session, wi).name[1]),
                       PaneLoop(wi, 0))
       ELSE Skip(PaneLoop(wi, 0))
    /\ UNCHANGED <<race, inputs, probe, exec>>

(***************************************************************************)
(* Pane::create                                                            *)
(***************************************************************************)
PaneCreate ==
    /\ pc = "pane"
    /\ IF pi # 0
       THEN Run(split_window_args(name, wi, pi, to_str(pane_root(session, cwd[1], wi, pi)),
                                  pane_at(session, wi, pi).split),
                <<"Error creating window", "Failed to create pane", "Failed to create new pane">>,
                At("keys", wi, pi))
       ELSE Skip(At("keys", wi, pi))
    /\ UNCHANGED <<race, inputs, probe, exec>>

PaneCommand ==
    /\ pc = "keys"
    /\ IF pane_at(session, wi, pi).command # None
       THEN RunDropped(send_keys_args(pane_at(session, wi, pi).command[1]),
                       PaneLoop(wi, pi + 1))
       ELSE Skip(PaneLoop(wi, pi + 1))
    /\ UNCHANGED <<race, inputs, probe, exec>>

(***************************************************************************)
(* Session::kill                                                           *)
(***************************************************************************)
Kill ==
    /\ pc = "main"
    /\ kill
    /\ LET n == session_name(session, cwd) IN
       IF n.kind = "Err"
       THEN /\ Goto(Return(Err(<<n.val>>)))
            /\ UNCHANGED <<cmds, fail>>
       ELSE IF n.kind = "Panic"
       THEN /\ Goto(Return(Panic(n.val)))
            /\ UNCHANGED <<cmds, fail>>
       ELSE Run(kill_args(session, cwd), <<"Error killing session">>, Return(Ok))
    /\ UNCHANGED <<race, inputs, probe, exec>>

Next ==
    \/ Start
    \/ CreateSession
    \/ WindowCreate
    \/ WindowRename
    \/ PaneCreate
    \/ PaneCommand
    \/ SelectPane
    \/ Attach
    \/ Kill

Spec == Init /\ [][Next]_vars

(***************************************************************************)
(* Several invocations of start (same configuration, same directory, live) *)
(* against one tmux server.  Each follows Session::start and create; the   *)
(* exit of has-session and of new is decided by the server's session       *)
(* table, which the commands of all invocations share.                     *)
(***************************************************************************)
Starts == 1..NumStarts

Fresh == [pc |-> "main", wi |-> 0, pi |-> 0, cmds |-> <<>>, probe |-> "none",
          result |-> Pending]

RaceInputs ==
    {[session |-> Session(n, None, a, w), cwd |-> d] :
        n \in {None, Some("work")}, a \in {None, Some(FALSE)},
        w \in {ScenarioWindows, TwoWindows},
        d \in {Some([abs |-> TRUE, comps |-> <<"home", "u", "proj">>])}}

InitRace ==
    /\ \E in \in RaceInputs :
        /\ session = in.session
        /\ cwd = in.cwd
    /\ dry_run = FALSE
    /\ kill = FALSE
    /\ pc = "main"
    /\ wi = 0
    /\ pi = 0
    /\ cmds = <<>>
    /\ probe = "none"
    /\ fail = NoFail
    /\ exec = "none"
    /\ result = Pending
    /\ race = [server |-> {}, proc |-> [p \in Starts |-> Fresh]]

\* tmux has-session -t n: exit status 0 when the server has a session n
has_session(server, n) == IF n \in server THEN "success" ELSE "status"

\* The invocation's record after it issued the commands argvs and moved to pos.
Moved(pr, pos, argvs) ==
    [pr EXCEPT !.pc = pos.pc,
               !.wi = IF pos.pc = "done" THEN pr.wi ELSE pos.wi,
               !.pi = IF pos.pc = "done" THEN pr.pi ELSE pos.pi,
               !.result = pos.result,
               !.cmds = pr.cmds \o [k \in 1..Len(argvs) |-> Cmd(argvs[k], TRUE)]]

Step(p, pos, argvs, server) ==
    /\ race' = [server |-> server, proc |-> [race.proc EXCEPT ![p] = Moved(@, pos, argvs)]]
    /\ UNCHANGED <<inputs, pc, wi, pi, cmds, probe, fail, exec, result>>

\* Session::start, lines 67-81
RStart(p) ==
    /\ race.proc[p].pc = "main"
    /\ IF is_empty(session)
       THEN Step(p, Return(Err(<<"Please configure at least one window.">>)), <<>>, race.server)
       ELSE LET o == has_session(race.server, name) IN
            /\ race' = [server |-> race.server,
                        proc |-> [race.proc EXCEPT
                                     ![p] = [Moved(@, AfterProbe(o), <<has_session_args(name)>>)
                                                EXCEPT !.probe = o]]]
            /\ UNCHANGED <<inputs, pc, wi, pi, cmds, probe, fail, exec, result>>

\* Session::create, lines 83-112: new adds the session unless the server has
\* it already (then tmux exits non-zero, which create does not look at).
RCreateSession(p) ==
    /\ race.proc[p].pc = "create"
    /\ Step(p, WindowLoop(0),
            <<new_args(name, to_str(first_pane_root(session, cwd[1], 0)))>>,
            race.server \cup {name})

\* Window::create, lines 155-176
RWindowCreate(p) ==
    /\ race.proc[p].pc = "window"
    /\ LET i == race.proc[p].wi IN
       Step(p, At("rename", i, 0),
            IF i # 0
            THEN <<new_window_args(name, to_str(first_pane_root(session, cwd[1], i)))>>
            ELSE <<>>,
            race.server)

\* Window::create, lines 177-183
RWindowRename(p) ==
    /\ race.proc[p].pc = "rename"
    /\ LET i == race.proc[p].wi IN
       Step(p, PaneLoop(i, 0),
            IF window_at(session, i).name # None
            THEN <<rename_window_args(name, window_at(session, i).name[1])>>
            ELSE <<>>,
            race.server)

\* Pane::create, lines 208-230
RPaneCreate(p) ==
    /\ race.proc[p].pc = "pane"
    /\ LET i == race.proc[p].wi
           j == race.proc[p].pi IN
       Step(p, At("keys", i, j),
            IF j # 0
            THEN <<split_window_args(name, i, j, to_str(pane_root(session, cwd[1], i, j)),
                                     pane_at(session, i, j).split)>>
            ELSE <<>>,
            race.server)

\* Pane::create, lines 231-237
RPaneCommand(p) ==
    /\ race.proc[p].pc = "keys"
    /\ LET i == race.proc[p].wi
           j == race.proc[p].pi IN
       Step(p, PaneLoop(i, j + 1),
            IF pane_at(session, i, j).command # None
            THEN <<send_keys_args(pane_at(session, i, j).command[1])>>
            ELSE <<>>,
            race.server)

\* Session::create, lines 118-121
RSelectPane(p) ==
    /\ race.proc[p].pc = "select"
    /\ Step(p, At("attach", race.proc[p].wi, race.proc[p].pi), <<select_pane_args(name)>>,
            race.server)

\* Session::create, lines 122-128: the exec of attach replaces the process
RAttach(p) ==
    /\ race.proc[p].pc = "attach"
    /\ IF attach_enabled(session)
       THEN Step(p, Return(Replaced), <<attach_args(name)>>, race.server)
       ELSE Step(p, Return(Ok), <<>>, race.server)

NextRace ==
    \/ \E p \in Starts : RStart(p)
    \/ \E p \in Starts : RCreateSession(p)
    \/ \E p \in Starts : RWindowCreate(p)
    \/ \E p \in Starts : RWindowRename(p)
    \/ \E p \in Starts : RPaneCreate(p)
    \/ \E p \in Starts : RPaneCommand(p)
    \/ \E p \in Starts : RSelectPane(p)
    \/ \E p \in Starts : RAttach(p)

SpecRace == InitRace /\ [][NextRace]_vars

(***************************************************************************)
(* Vocabulary of the properties.                                           *)
(***************************************************************************)
Verb(c) == c.argv[1]
Last(q) == q[Len(q)]
Verbs == [k \in 1..Len(cmds) |-> Verb(cmds[k])]
Argvs == [k \in 1..Len(cmds) |-> cmds[k].argv]
LaunchedCmds == SelectSeq(cmds, LAMBDA c : c.launched)

CreationVerbs ==
    {"new", "new-window", "rename-window", "split-window", "send-keys", "select-pane"}

ErrEmpty == Err(<<"Please configure at least one window.">>)
ErrExists == Err(<<"Session already exists. Please explicitly set a unique name.">>)
ErrCwd == Err(<<"Failed to get current directory">>)

NameResolves == session.name # None \/ (cwd # None /\ cwd[1].comps # <<>>)

\* The session name the run addresses, read off the inputs.
GivenName ==
    IF session.name # None THEN session.name[1] ELSE cwd[1].comps[Len(cwd[1].comps)]

Proj == Some([abs |-> TRUE, comps |-> <<"home", "u", "proj">>])

\* C1: with an empty window list start (live or dry) fails with the
\* configuration error and no tmux command is built or launched, the
\* has-session probe included.
C1_EmptyFailsWithoutCommands ==
    (~kill /\ session.window = <<>>) =>
        /\ cmds = <<>>
        /\ probe = "none"
        /\ pc \in {"main", "done"}
        /\ pc = "done" => result = ErrEmpty

C1_Witness ==
    /\ ~kill
    /\ session.window = <<>>
    /\ dry_run
    /\ pc = "done"
    /\ result = ErrEmpty

\* C2: when the has-session probe exits with success, start returns the
\* already-exists error and the probe is the only command of the run.
C2_ExistingSessionNoCreation ==
    probe = "success" =>
        /\ pc = "done"
        /\ result = ErrExists
        /\ \A k \in 1..Len(cmds) : Verb(cmds[k]) \notin CreationVerbs \cup {"attach"}

C2_Witness ==
    /\ probe = "success"
    /\ Len(session.window) = 2
    /\ ~dry_run
    /\ result = ErrExists
    /\ Verbs = <<"has-session">>

\* C3: in a dry run of start the only process launched is the has-session
\* probe (it is launched whenever the window list is not empty and the name
\* resolves), and the configuration and environment errors depend on the
\* inputs alone, so that a dry run reports them as a live run does.
C3_DryRunLaunchesOnlyProbe ==
    ~kill =>
        /\ dry_run => \A k \in 1..Len(cmds) :
               cmds[k].launched => (k = 1 /\ Verb(cmds[k]) = "has-session")
        /\ (dry_run /\ pc = "done" /\ session.window # <<>> /\ NameResolves) =>
               (cmds # <<>> /\ cmds[1] = Cmd(<<"has-session", "-t", GivenName>>, TRUE))
        /\ pc = "done" =>
               /\ session.window = <<>> => result = ErrEmpty
               /\ (session.window # <<>> /\ cwd = None) => result.kind = "Err"
               /\ (session.window # <<>> /\ cwd = None /\ session.name = None) =>
                      (result = ErrCwd /\ cmds = <<>>)
               /\ (cwd = None /\ probe = "status") => result = ErrCwd
               /\ probe = "success" => result = ErrExists

C3_Witness ==
    /\ ~kill
    /\ dry_run
    /\ pc = "done"
    /\ result = Ok
    /\ Len(cmds) > 3
    /\ Len(LaunchedCmds) = 1

\* C4: in a live start run, once a command of the creation sequence has
\* failed (not launched, or exit status non-zero), it is the last command
\* of the run and start returns an error.
C4_FailureAborts ==
    (~kill /\ fail.idx # 0) =>
        /\ Len(cmds) = fail.idx
        /\ pc = "done"
        /\ result.kind = "Err"

\* start went through select-pane without returning its error
ReachedEnd == (\E k \in 1..Len(cmds) : Verb(cmds[k]) = "select-pane") /\ result.kind # "Err"

AttachExecuted == \E k \in 1..Len(cmds) : Verb(cmds[k]) = "attach" /\ cmds[k].launched

\* C5: attach is executed exactly when start reached the end of the
\* creation sequence with the attach flag true or absent and the run live;
\* an executed attach is the last command of the run; with attach = false
\* or in a dry run start returns success without executing it.
C5_AttachIffEnabledAndLive ==
    ~kill =>
        /\ \A k \in 1..Len(cmds) :
               (Verb(cmds[k]) = "attach" /\ cmds[k].launched) => (k = Len(cmds) /\ pc = "done")
        /\ pc = "done" =>
               (AttachExecuted <=>
                   (ReachedEnd /\ session.attach # Some(FALSE) /\ ~dry_run))
        /\ (pc = "done" /\ ReachedEnd /\ (session.attach = Some(FALSE) \/ dry_run)) =>
               (result = Ok /\ ~AttachExecuted)

C5_Witness ==
    /\ ~kill
    /\ pc = "done"
    /\ session.attach = None
    /\ ~dry_run
    /\ AttachExecuted
    /\ Verb(Last(cmds)) = "attach"
    /\ Len(session.window) = 2

\* C6: a kill run whose session name resolves builds exactly one command,
\* kill-session -t <name>, for any window list (the empty one included),
\* launched unless the run is dry; it never builds has-session.
C6_KillIssuesOneCommand ==
    kill =>
        /\ Len(cmds) <= 1
        /\ probe = "none"
        /\ (pc = "done" /\ NameResolves) =>
               cmds = <<Cmd(<<"kill-session", "-t", GivenName>>, ~dry_run)>>
        /\ (pc = "done" /\ session.name = Some("work")) =>
               Argvs = <<(<<"kill-session", "-t", "work">>)>>

C6_Witness ==
    /\ kill
    /\ ~dry_run
    /\ pc = "done"
    /\ session.name = Some("work")
    /\ Len(session.window) = 2
    /\ cmds = <<Cmd(<<"kill-session", "-t", "work">>, TRUE)>>

C6_WitnessEmpty ==
    /\ kill
    /\ pc = "done"
    /\ session.window = <<>>
    /\ Len(cmds) = 1

\* C7: for the one-window two-pane scenario (ls, then top in a horizontal
\* split; no name; cwd /home/u/proj; probe reports no session; live; every
\* command succeeds) the commands of the run are exactly the listed seven,
\* in the listed order.
C7_ScenarioSequence ==
    (/\ ~kill
     /\ ~dry_run
     /\ session = Session(None, None, None, ScenarioWindows)
     /\ cwd = Proj
     /\ pc = "done"
     /\ result = Replaced
     /\ fail = NoFail) =>
        Argvs = << <<"has-session", "-t", "proj">>,
                   <<"new", "-d", "-s", "proj", "-c", "/home/u/proj">>,
                   <<"split-window", "-t", "proj:0", "-c", "/home/u/proj", "-h">>,
                   <<"send-keys", "ls\n">>,
                   <<"send-keys", "top\n">>,
                   <<"select-pane", "-t", "proj:0.0">>,
                   <<"attach", "-t", "proj">> >>

\* The resolution rule of the specification: start from the base and apply
\* the overrides from left to right, skipping the absent ones; a relative
\* override is appended, an absolute one replaces what was accumulated.
RECURSIVE Resolve(_, _)
Resolve(acc, ovs) ==
    IF ovs = <<>> THEN acc
    ELSE LET o == Head(ovs) IN
         Resolve(IF o = None THEN acc
                 ELSE IF o[1].abs THEN o[1]
                 ELSE [abs |-> acc.abs, comps |-> acc.comps \o o[1].comps],
                 Tail(ovs))

EffectiveRoot(w, p) ==
    to_str(Resolve(cwd[1], <<session.root, window_at(session, w).root,
                             pane_at(session, w, p).root>>))

\* Root of the command that creates window w: the first pane's when there is one.
FirstRoot(w) ==
    to_str(Resolve(cwd[1],
                   <<session.root, window_at(session, w).root>>
                       \o (IF window_at(session, w).pane # <<>>
                           THEN <<pane_at(session, w, 0).root>> ELSE <<>>)))

InR == Some([abs |-> TRUE, comps |-> <<"r">>])

\* C8: the split-window of pane j >= 1 of window i targets <name>:<i>, has
\* the pane's effective root as -c, and ends with -h exactly when the
\* pane's split is "horizontal".
C8_SplitTargetsOwningWindow ==
    (pc = "keys" /\ pi >= 1) =>
        Last(cmds).argv =
            <<"split-window", "-t", GivenName \o ":" \o ToString(wi),
              "-c", EffectiveRoot(wi, pi)>>
                \o (IF pane_at(session, wi, pi).split = Some("horizontal")
                    THEN <<"-h">> ELSE <<>>)

\* C9: the -c of the command that creates pane (w,p) (new for (0,0),
\* new-window for (w,0), split-window otherwise) is the current directory
\* with the session, window and pane overrides applied in this order; three
\* relative overrides give cwd/S/W/P, an absolute pane override gives itself.
C9_EffectiveRootCascade ==
    /\ (pc = "keys" /\ pi >= 1) =>
           /\ Verb(Last(cmds)) = "split-window"
           /\ Last(cmds).argv[5] = EffectiveRoot(wi, pi)
           /\ (/\ cwd = InR
               /\ session.root = Some(Rel("s"))
               /\ window_at(session, wi).root = Some(Rel("b"))
               /\ pane_at(session, wi, pi).root = Some(Rel("q"))) =>
                  Last(cmds).argv[5] = "/r/s/b/q"
           /\ pane_at(session, wi, pi).root = Some(Abs("var")) =>
                  Last(cmds).argv[5] = "/var"
    /\ (pc = "window" /\ wi = 0 /\ window_at(session, 0).pane # <<>>) =>
           /\ Verb(Last(cmds)) = "new"
           /\ Last(cmds).argv[6] = EffectiveRoot(0, 0)
           /\ pane_at(session, 0, 0).root = Some(Abs("tmp")) => Last(cmds).argv[6] = "/tmp"
    /\ (pc = "rename" /\ wi >= 1 /\ window_at(session, wi).pane # <<>>) =>
           /\ Verb(Last(cmds)) = "new-window"
           /\ Last(cmds).argv[5] = EffectiveRoot(wi, 0)

C9_Witness ==
    /\ pc = "keys"
    /\ pi = 1
    /\ cwd = InR
    /\ session.root = Some(Rel("s"))
    /\ window_at(session, wi).root = Some(Rel("b"))
    /\ pane_at(session, wi, pi).root = Some(Rel("q"))
    /\ Last(cmds).argv[5] = "/r/s/b/q"

C9_WitnessAbsolute ==
    /\ pc = "keys"
    /\ pi = 1
    /\ session.root = Some(Rel("s"))
    /\ window_at(session, wi).root = Some(Abs("opt"))
    /\ pane_at(session, wi, pi).root = Some(Abs("var"))
    /\ Last(cmds).argv[5] = "/var"

\* C10: new is issued with -c the effective root of pane (0,0) (the window
\* root when window 0 has no pane) and the new-window of window i >= 1 with
\* -c session root + window i root + first pane root when present; with cwd
\* /r and "b" on the second of two windows as the only root, that is /r/b.
C10_CreationRoots ==
    /\ (pc = "window" /\ wi = 0) =>
           Last(cmds).argv = <<"new", "-d", "-s", GivenName, "-c", FirstRoot(0)>>
    /\ (pc = "rename" /\ wi >= 1) =>
           /\ Last(cmds).argv = <<"new-window", "-t", GivenName, "-c", FirstRoot(wi)>>
           /\ (/\ cwd = InR
               /\ wi = 1
               /\ Len(session.window) = 2
               /\ session.root = None
               /\ window_at(session, 0).root = None
               /\ window_at(session, 1).root = Some(Rel("b"))
               /\ \A w \in 0..1 : \A k \in 1..Len(window_at(session, w).pane) :
                      window_at(session, w).pane[k].root = None) =>
                  Last(cmds).argv[5] = "/r/b"

C10_Witness ==
    /\ pc = "rename"
    /\ wi = 1
    /\ cwd = InR
    /\ Len(session.window) = 2
    /\ session.root = None
    /\ window_at(session, 0).root = None
    /\ window_at(session, 1).root = Some(Rel("b"))
    /\ \A k \in 1..Len(window_at(session, 1).pane) :
           window_at(session, 1).pane[k].root = None
    /\ Last(cmds).argv = <<"new-window", "-t", "r", "-c", "/r/b">>

C10_WitnessFirstPane ==
    /\ pc = "window"
    /\ wi = 0
    /\ session.root = Some(Rel("s"))
    /\ window_at(session, 0).root = Some(Rel("b"))
    /\ window_at(session, 0).pane # <<>>
    /\ pane_at(session, 0, 0).root = Some(Rel("p"))
    /\ Last(cmds).argv = <<"new", "-d", "-s", "r", "-c", "/r/s/b/p">>

\* Phase of a command in the run of start.
Phase(v) ==
    IF v = "has-session" THEN 0
    ELSE IF v = "new" THEN 1
    ELSE IF v \in {"new-window", "rename-window", "split-window", "send-keys"} THEN 2
    ELSE IF v = "select-pane" THEN 3
    ELSE IF v = "attach" THEN 4
    ELSE 5

Count(v) == Cardinality({k \in 1..Len(cmds) : Verb(cmds[k]) = v})

\* C11: in a run of start the commands come in phase order: has-session
\* first, new second, then the window and pane commands, then one
\* select-pane -t <name>:0.0 once every window has been created, then
\* attach; no command of an earlier phase follows one of a later phase, and
\* a command's exit has been collected before the next one is built (the
\* first failure recorded is never that of a command still to come).
C11_PhaseOrder ==
    ~kill =>
        /\ \A k \in 1..Len(cmds) : \A l \in k..Len(cmds) :
               Phase(Verb(cmds[k])) <= Phase(Verb(cmds[l]))
        /\ \A k \in 1..Len(cmds) : Phase(Verb(cmds[k])) <= 4
        /\ \A v \in {"has-session", "new", "select-pane", "attach"} : Count(v) <= 1
        /\ Len(cmds) >= 1 => cmds[1].argv = <<"has-session", "-t", GivenName>>
        /\ Len(cmds) >= 2 => Verb(cmds[2]) = "new"
        /\ \A k \in 1..Len(cmds) : Verb(cmds[k]) = "select-pane" =>
               /\ cmds[k].argv = <<"select-pane", "-t", GivenName \o ":0.0">>
               /\ Count("new-window") = Len(session.window) - 1
               /\ pc \in {"attach", "done"}
        /\ fail.idx <= Len(cmds)
        /\ pc = "main" => cmds = <<>>

C11_Witness ==
    /\ ~kill
    /\ ~dry_run
    /\ pc = "done"
    /\ Len(session.window) = 2
    /\ Count("split-window") >= 1
    /\ Count("send-keys") >= 1
    /\ Count("rename-window") >= 1
    /\ Verb(cmds[Len(cmds) - 1]) = "select-pane"
    /\ Verb(Last(cmds)) = "attach"

RECURSIVE Flatten(_)
Flatten(ss) == IF ss = <<>> THEN <<>> ELSE Head(ss) \o Flatten(Tail(ss))

IsPrefix(a, b) == Len(a) <= Len(b) /\ a = SubSeq(b, 1, Len(a))

\* What the configuration asks for pane (i,j): the command that creates it
\* (new and new-window create pane 0 with the window), then its keys.
PaneDemand(i, j) ==
    (IF j >= 1 THEN << <<"split-window">> >> ELSE <<>>)
        \o (IF pane_at(session, i, j).command # None
            THEN << <<"send-keys", pane_at(session, i, j).command[1] \o "\n">> >>
            ELSE <<>>)

WindowDemand(i) ==
    << <<IF i = 0 THEN "new" ELSE "new-window">> >>
        \o Flatten([k \in 1..Len(window_at(session, i).pane) |-> PaneDemand(i, k - 1)])

Demand == Flatten([k \in 1..Len(session.window) |-> WindowDemand(k - 1)])

\* The creating commands (by verb) and the send-keys (whole) of the run.
Issued ==
    LET pick == SelectSeq(cmds, LAMBDA c :
                    Verb(c) \in {"new", "new-window", "split-window", "send-keys"})
    IN [k \in 1..Len(pick) |->
            IF Verb(pick[k]) = "send-keys" THEN pick[k].argv ELSE <<Verb(pick[k])>>]

\* C12: a pane with a command c gets exactly one send-keys "c\n", after the
\* command that creates the pane and before any later window- or
\* pane-creating command; a pane without a command gets none.
C12_SendKeysFollowCreation ==
    ~kill =>
        /\ IsPrefix(Issued, Demand)
        /\ (\E k \in 1..Len(cmds) : Verb(cmds[k]) = "select-pane") => Issued = Demand

C12_Witness ==
    /\ ~kill
    /\ ~dry_run
    /\ pc = "done"
    /\ Count("select-pane") = 1
    /\ Issued = << <<"new">>, <<"send-keys", "ls\n">>, <<"split-window">>,
                   <<"send-keys", "top\n">>, <<"new-window">>,
                   <<"send-keys", "ls\n">>, <<"split-window">>,
                   <<"send-keys", "top\n">> >>

\* C13: start never issues kill-session, in particular not after a step has
\* failed: the commands issued before the failing one stay the record of
\* the run and start returns with nothing issued after the failure that
\* would undo them.
C13_NoRollback ==
    ~kill =>
        /\ \A k \in 1..Len(cmds) : Verb(cmds[k]) # "kill-session"
        /\ (pc = "done" /\ result.kind = "Err" /\ Len(cmds) >= 2) =>
               /\ Verb(Last(cmds)) \in CreationVerbs
               /\ fail.idx \in 2..Len(cmds)
               /\ Verb(cmds[2]) = "new"

C13_Witness ==
    /\ ~kill
    /\ pc = "done"
    /\ result.kind = "Err"
    /\ fail.kind = "spawn"
    /\ fail.idx >= 3
    /\ Verb(cmds[2]) = "new"
    /\ Verb(Last(cmds)) = "split-window"

\* C14: when attach is executed and the process replacement fails, start
\* returns an error.
C14_AttachFailureFails ==
    exec = "spawn" => (pc = "done" /\ result.kind = "Err")

\* C15: in a live kill run, when kill-session fails (not launched, or exit
\* status non-zero) kill returns an error, and the command is issued once.
C15_KillFailureSurfaced ==
    (kill /\ ~dry_run /\ pc = "done" /\ fail.idx # 0) =>
        (result.kind = "Err" /\ Len(cmds) = 1)

\* Windows the run has asked tmux to create before command k.
WindowsBefore(k) ==
    Cardinality({l \in 1..(k - 1) : Verb(cmds[l]) \in {"new", "new-window"}})

\* C17: in a live run a split-window -t <name>:<k> is issued only once
\* window k has been created, and select-pane -t <name>:0.0 only once the
\* session (window 0, pane 0) has been.
C17_TargetsExist ==
    (~kill /\ ~dry_run) =>
        \A k \in 1..Len(cmds) :
            /\ Verb(cmds[k]) = "split-window" =>
                   cmds[k].argv[3] \in
                       {GivenName \o ":" \o ToString(t) : t \in 0..(WindowsBefore(k) - 1)}
            /\ Verb(cmds[k]) = "select-pane" => WindowsBefore(k) >= 1

Named == {i \in 0..(Len(session.window) - 1) : window_at(session, i).name # None}

SelectIssued == \E k \in 1..Len(cmds) : Verb(cmds[k]) = "select-pane"

\* C18: a window with a name n gets exactly one rename-window -t <session> n,
\* issued right after the command that creates the window (new for window
\* 0), hence before its split-window and send-keys and before the next
\* new-window; a window without a name gets none.
C18_RenameFollowsCreation ==
    ~kill =>
        /\ \A k \in 1..Len(cmds) :
               /\ Verb(cmds[k]) = "rename-window" =>
                      (k > 1 /\ Verb(cmds[k - 1]) \in {"new", "new-window"})
               /\ (Verb(cmds[k]) \in {"new", "new-window"} /\ k < Len(cmds)) =>
                      LET w == window_at(session, WindowsBefore(k)) IN
                      IF w.name # None
                      THEN cmds[k + 1].argv = <<"rename-window", "-t", GivenName, w.name[1]>>
                      ELSE Verb(cmds[k + 1]) # "rename-window"
        /\ SelectIssued => Count("rename-window") = Cardinality(Named)

C18_Witness ==
    /\ ~kill
    /\ ~dry_run
    /\ SelectIssued
    /\ Len(session.window) = 2
    /\ window_at(session, 0).name = Some("edit")
    /\ Argvs[3] = <<"rename-window", "-t", "work", "edit">>
    /\ Verb(cmds[4]) = "new-window"
    /\ Argvs[5] = <<"rename-window", "-t", "work", "logs">>
    /\ Verb(cmds[6]) = "send-keys"

PanesWhere(P(_)) ==
    Cardinality(UNION {{<<i, j>> : j \in {x \in 0..(Len(window_at(session, i).pane) - 1) :
                                              P(<<i, x>>)}} :
                       i \in 0..(Len(session.window) - 1)})

\* C19: in a live run of start where the probe reports no session and every
\* command succeeds, the commands are one has-session, one new, one
\* new-window per window after the first, one split-window per pane of
\* index >= 1, one send-keys per pane with a command, one rename-window per
\* named window, one select-pane and at most one attach, and nothing else.
C19_ExactCommandCounts ==
    (~kill /\ ~dry_run /\ pc = "done" /\ probe = "status" /\ fail = NoFail
        /\ result.kind \in {"Ok", "Replaced"}) =>
        /\ Count("has-session") = 1
        /\ Count("new") = 1
        /\ Count("new-window") = Len(session.window) - 1
        /\ Count("split-window") = PanesWhere(LAMBDA ij : ij[2] >= 1)
        /\ Count("send-keys") =
               PanesWhere(LAMBDA ij : pane_at(session, ij[1], ij[2]).command # None)
        /\ Count("rename-window") = Cardinality(Named)
        /\ Count("select-pane") = 1
        /\ Count("attach") = (IF session.attach = Some(FALSE) THEN 0 ELSE 1)
        /\ Len(cmds) = Count("has-session") + Count("new") + Count("new-window")
                         + Count("split-window") + Count("send-keys")
                         + Count("rename-window") + Count("select-pane") + Count("attach")

C19_Witness ==
    /\ ~kill
    /\ ~dry_run
    /\ pc = "done"
    /\ probe = "status"
    /\ fail = NoFail
    /\ result = Replaced
    /\ Len(session.window) = 2
    /\ Count("split-window") = 2
    /\ Count("send-keys") = 4
    /\ Count("rename-window") = 2
    /\ Len(cmds) = 13

ErrTmux == Err(<<"Error executing tmux">>)

\* C20: with a non-empty window list start runs create exactly when the
\* probe was launched and exited without success; a probe that cannot be
\* launched makes start fail with the tmux error, the probe being the only
\* command of the run.
C20_CreationIffProbeFails ==
    ~kill =>
        /\ pc \in {"create", "window", "rename", "pane", "keys", "select", "attach"} =>
               probe = "status"
        /\ (\E k \in 1..Len(cmds) : Verb(cmds[k]) \in CreationVerbs \cup {"attach"}) =>
               probe = "status"
        /\ probe = "status" =>
               /\ pc # "main"
               /\ result \notin {ErrExists, ErrTmux, ErrEmpty}
               /\ Len(cmds) = 1 => (pc = "create" \/ (cwd = None /\ result = ErrCwd))
        /\ probe = "spawn" =>
               /\ pc = "done"
               /\ result = ErrTmux
               /\ Verbs = <<"has-session">>
        /\ (session.window # <<>> /\ NameResolves /\ pc # "main") => probe # "none"

C20_Witness ==
    /\ ~kill
    /\ probe = "spawn"
    /\ session.window # <<>>
    /\ pc = "done"
    /\ result = ErrTmux
    /\ Verbs = <<"has-session">>

C20_WitnessCreate ==
    /\ ~kill
    /\ probe = "status"
    /\ pc = "window"
    /\ Verbs = <<"has-session", "new">>

IssuedNew(p) ==
    \E k \in 1..Len(race.proc[p].cmds) : Verb(race.proc[p].cmds[k]) = "new"

\* C16: the probe is all that separates concurrent invocations of start on
\* one session name: an invocation is turned away only when another one's
\* new had been served before its probe, and an invocation whose probe
\* reported no session runs the whole creation sequence whatever the others
\* do; so two invocations that both probe before either's new both issue
\* new (and what follows) for the same name.
C16_ProbeIsTheOnlyGuard ==
    \A p \in DOMAIN race.proc :
        LET pr == race.proc[p] IN
        /\ pr.probe = "success" =>
               /\ \E q \in DOMAIN race.proc : q # p /\ IssuedNew(q)
               /\ pr.pc = "done"
               /\ pr.result = ErrExists
               /\ Len(pr.cmds) = 1
        /\ pr.probe = "status" =>
               /\ pr.pc # "main"
               /\ pr.pc = "done" =>
                      (pr.result \in {Ok, Replaced}
                          /\ \E k \in 1..Len(pr.cmds) : Verb(pr.cmds[k]) = "select-pane")
        /\ IssuedNew(p) =>
               /\ pr.probe = "status"
               /\ pr.cmds[2].argv[4] = GivenName
               /\ GivenName \in race.server
        /\ pr.pc \notin {"main", "done"} => pr.probe = "status"

C16_Witness ==
    /\ DOMAIN race.proc = Starts
    /\ \A p \in {1, 2} :
           /\ race.proc[p].probe = "status"
           /\ race.proc[p].pc = "done"
           /\ race.proc[p].cmds[1].argv = <<"has-session", "-t", "work">>
           /\ race.proc[p].cmds[2].argv = <<"new", "-d", "-s", "work", "-c", "/home/u/proj">>
           /\ Verb(race.proc[p].cmds[3]) = "send-keys"
           /\ Verb(race.proc[p].cmds[4]) = "split-window"
           /\ \E k \in 1..Len(race.proc[p].cmds) : Verb(race.proc[p].cmds[k]) = "select-pane"

====
